---- MODULE Spec2Model ----
(***************************************************************************)
(* babel-plugin-jest-easy-mock: the plugin's pass over one file.           *)
(*                                                                         *)
(* The file is a Babel Program: `directives` (the directive prologue) and  *)
(* a body of statements.  The traversal visits the body in order and runs  *)
(* the ImportDeclaration and CallExpression visitors; post() then builds   *)
(* one jest.mock() registration per module and unshifts it into the body.  *)
(*                                                                         *)
(* Syntax-tree nodes are records [type, name, kids]:                       *)
(*   Identifier        name = the identifier                               *)
(*   StringLiteral     name = the value                                    *)
(*   MemberExpression  kids = <<object, property>>, name = "computed" for  *)
(*                     object[property], "" for object.property            *)
(*   CallExpression    kids = <<callee, arg1, ..., argn>>                  *)
(*   ImportDeclaration name = source.value, kids = the specifiers          *)
(*   Import*Specifier  name = local.name, kids = <<imported>> (named only) *)
(*   ObjectExpression  kids = properties                                   *)
(*   ObjectProperty    name = key (a string literal), kids = <<value>>     *)
(*   SpreadElement     kids = <<argument>>                                 *)
(*   ArrowFunctionExpression (the factory) name = the module path given to *)
(*                     jest.requireActual ("" when there is none),         *)
(*                     kids = <<object expression, name statements...>>    *)
(*   NameStatement     name = the location o.<name>, kids = <<value>>      *)
(* A call statement is modelled by its CallExpression (removing the call   *)
(* removes the expression statement that holds it).                        *)
(***************************************************************************)
EXTENDS Integers, Sequences, FiniteSets, TLC

VARIABLES
    config,             \* the plugin configuration (defaultConfig merged with options)
    directives,         \* program.node.directives: never touched by the plugin
    file,               \* the statements of the file's body visited so far, as parsed
    body,               \* program.node.body as the pass mutates it
    program,            \* this.program is set
    importIdentifiers,  \* Map modulePath -> ImportDefinition[], in insertion order
    mocks,              \* Map access identifier -> MockDefinition[]
    existingJestMocks,  \* module paths of explicit jest.mock()-style calls
    pc                  \* "pre" | "traverse" | "done" | "threw"

vars == <<config, directives, file, body, program, importIdentifiers, mocks,
          existingJestMocks, pc>>

(* ------------------------------ bounds --------------------------------- *)

MaxStmts == 4

(* --------------------------- syntax tree ------------------------------- *)

Node(t, n, k) == [type |-> t, name |-> n, kids |-> k]

Id(n) == Node("Identifier", n, <<>>)
Str(v) == Node("StringLiteral", v, <<>>)
Member(o, p) == Node("MemberExpression", "", <<o, p>>)
Call(callee, args) == Node("CallExpression", "", <<callee>> \o args)

\* object[property]
ComputedMember(o, p) == Node("MemberExpression", "computed", <<o, p>>)

\* this
ThisExpression == Node("ThisExpression", "", <<>>)

isIdentifier(n) == n.type = "Identifier"
isMemberExpression(n) == n.type = "MemberExpression"
\* (a variant that takes a template literal for a string literal)
isStringLiteralOrTemplate(n) == n.type \in {"StringLiteral", "TemplateLiteral"}

isStringLiteral(n) == n.type = "StringLiteral"
isObjectExpression(n) == n.type = "ObjectExpression"
\* (a variant that takes every argument node for an expression)
isExpressionAny(n) == TRUE

isExpression(n) == n.type \notin {"SpreadElement", "ArgumentPlaceholder", "JSXNamespacedName"}

\* X.p1.p2...pn as the parser nests it: ((X.p1).p2)...pn
RECURSIVE Chain(_, _)
Chain(root, segs) ==
    IF segs = <<>> THEN Id(root)
    ELSE Member(Chain(root, SubSeq(segs, 1, Len(segs) - 1)), Id(segs[Len(segs)]))

\* a dotted callee name such as "jest.mockObj" as a callee expression
Callee(parts) == Chain(Head(parts), Tail(parts))

ImportDefaultSpecifier(local) == Node("ImportDefaultSpecifier", local, <<>>)
ImportNamespaceSpecifier(local) == Node("ImportNamespaceSpecifier", local, <<>>)
ImportSpecifier(imported, local) == Node("ImportSpecifier", local, <<Id(imported)>>)
ImportDecl(source, specifiers) == Node("ImportDeclaration", source, specifiers)

(* --------------------------- configuration ----------------------------- *)

IdentifierConfiguration(n, r, t) == [name |-> n, remove |-> r, type |-> t]

NoIdentifier == IdentifierConfiguration("", FALSE, "")

defaultConfig ==
    [jestIdentifier |-> "jest",
     ignoreIdentifiers |-> <<"jest.mock", "jest.doMock", "jest.unmock", "jest.dontMock">>,
     identifiers |-> <<IdentifierConfiguration("jest.mockObj", TRUE, "name"),
                       IdentifierConfiguration("jest.mockFn", TRUE, "mock")>>,
     requireActual |-> FALSE]

(* ------------------------ expression classifier ------------------------ *)

\* name += name ? "." + x : x
AppendName(name, x) == IF name = "" THEN x ELSE name \o "." \o x

RECURSIVE getNameOfExpression(_)
getNameOfExpression(node) ==
    IF ~isIdentifier(node) /\ ~isMemberExpression(node) THEN ""
    ELSE IF isIdentifier(node) THEN node.name
    ELSE LET object == node.kids[1]
             property == node.kids[2]
             n1 == IF isIdentifier(object) THEN object.name
                   ELSE IF isMemberExpression(object) THEN getNameOfExpression(object)
                   ELSE ""
         IN  IF isIdentifier(property) THEN AppendName(n1, property.name)
             ELSE IF isMemberExpression(property)
                  THEN AppendName(n1, getNameOfExpression(property))
                  ELSE n1

\* (a variant that knows an explicit mock by its single argument)
isJestMockCallExpressionBare(cfg, node) ==
    /\ Len(node.kids) = 2
    /\ \E k \in 1..Len(cfg.ignoreIdentifiers) :
           cfg.ignoreIdentifiers[k] = getNameOfExpression(node.kids[1])

isJestMockCallExpression(cfg, node) ==
    LET callee == node.kids[1] IN
    IF ~isIdentifier(callee) /\ ~isMemberExpression(callee) THEN FALSE
    ELSE LET fullCalle == getNameOfExpression(callee) IN
         IF fullCalle = "" THEN FALSE
         ELSE \E k \in 1..Len(cfg.ignoreIdentifiers) : cfg.ignoreIdentifiers[k] = fullCalle

\* (a variant that looks at the callee's object only)
isMockObjCallExpessionByObject(cfg, node) ==
    LET callee == node.kids[1] IN
    IF /\ isMemberExpression(callee)
       /\ isIdentifier(callee.kids[1])
       /\ callee.kids[1].name = cfg.jestIdentifier
    THEN cfg.identifiers[1]
    ELSE NoIdentifier

\* the first configured identifier whose name is the callee's full name, or NoIdentifier
isMockObjCallExpession(cfg, node) ==
    LET callee == node.kids[1] IN
    IF ~isIdentifier(callee) /\ ~isMemberExpression(callee) THEN NoIdentifier
    ELSE LET fullCalle == getNameOfExpression(callee)
             hits == {k \in 1..Len(cfg.identifiers) : cfg.identifiers[k].name = fullCalle}
         IN  IF fullCalle = "" \/ hits = {} THEN NoIdentifier
             ELSE cfg.identifiers[CHOOSE k \in hits : \A j \in hits : k <= j]

(* ------------------------ mock request registry ------------------------ *)

MockDefinition(expression, subProperties, type) ==
    [expression |-> expression, subProperties |-> subProperties, type |-> type]

\* (a variant without the tag: jest.fn())
JestFnPlain(name) == Call(Member(Id("jest"), Id("fn")), <<>>)

\* jest.fn().mockName(name)
JestFnMockName(name) ==
    Call(Member(Call(Member(Id("jest"), Id("fn")), <<>>), Id("mockName")), <<Str(name)>>)

\* while (t.isMemberExpression(obj)) { unshift the identifier properties; obj = obj.object }
RECURSIVE WalkObject(_, _)
WalkObject(obj, subIdentifiers) ==
    IF isMemberExpression(obj)
    THEN WalkObject(obj.kids[1],
                    IF isIdentifier(obj.kids[2])
                    THEN <<obj.kids[2].name>> \o subIdentifiers
                    ELSE subIdentifiers)
    ELSE [obj |-> obj, subIdentifiers |-> subIdentifiers]

MapGet(m, k) == IF k \in DOMAIN m THEN m[k] ELSE <<>>
MapSet(m, k, v) == [x \in DOMAIN m \cup {k} |-> IF x = k THEN v ELSE m[x]]

\* the registry after createMockDefinition(def, type, name, impl); hasImpl: impl was given
createMockDefinition(ms, def, type, name, hasImpl, impl) ==
    IF ~isIdentifier(def) /\ ~isMemberExpression(def) THEN ms
    ELSE IF isIdentifier(def)
         THEN MapSet(ms, def.name,
                     Append(MapGet(ms, def.name),
                            MockDefinition(IF hasImpl THEN impl
                                           ELSE IF type = "name" THEN Str(def.name)
                                           ELSE JestFnMockName(name),
                                           <<>>, type)))
    ELSE IF isIdentifier(def.kids[2])
         THEN LET lastIdentifier == def.kids[2].name
                  w == WalkObject(def.kids[1], <<>>)
              IN  IF ~isIdentifier(w.obj) THEN ms
                  ELSE MapSet(ms, w.obj.name,
                              Append(MapGet(ms, w.obj.name),
                                     MockDefinition(IF hasImpl THEN impl
                                                    ELSE IF type = "name" THEN Str(lastIdentifier)
                                                    ELSE JestFnMockName(name),
                                                    Append(w.subIdentifiers, lastIdentifier),
                                                    type)))
    ELSE ms

(* ------------------------------ visitors ------------------------------- *)

ImportDefinition(name, type) == [name |-> name, type |-> type]

\* the ImportDefinition a specifier pushes
SpecifierDefinition(s) ==
    IF s.type = "ImportDefaultSpecifier" THEN ImportDefinition(s.name, "default")
    ELSE IF s.type = "ImportNamespaceSpecifier" THEN ImportDefinition(s.name, "namespace")
    ELSE IF s.kids[1].name = "default" THEN ImportDefinition(s.name, "default")
    ELSE ImportDefinition(s.name, "import")

SpecifierDefinitions(specifiers) ==
    [k \in 1..Len(specifiers) |-> SpecifierDefinition(specifiers[k])]

\* (a variant that never finds the module path: a list instead of a Map)
MapIndexAbsent(ii, modulePath) == 0

\* the index of modulePath in the Map's insertion order, 0 when absent
MapIndex(ii, modulePath) ==
    IF \E k \in 1..Len(ii) : ii[k].path = modulePath
    THEN CHOOSE k \in 1..Len(ii) : ii[k].path = modulePath
    ELSE 0

\* visitor.ImportDeclaration: importIdentifiers after the declaration
ImportDeclarationVisitor(ii, node) ==
    LET specifiers == node.kids
        at == MapIndex(ii, node.name)
        moduleIdentifiers ==
            (IF at = 0 THEN <<>> ELSE ii[at].defs) \o SpecifierDefinitions(specifiers)
    IN  IF Len(specifiers) > 0
        THEN IF at = 0
             THEN Append(ii, [path |-> node.name, defs |-> moduleIdentifiers])
             ELSE [ii EXCEPT ![at].defs = moduleIdentifiers]
        ELSE ii

\* (a variant that stops after the first argument)
MockEachArgumentFirst(ms, args, type) ==
    IF args = <<>> THEN ms
    ELSE LET arg == Head(args)
             expName == getNameOfExpression(arg)
         IN  IF expName = "" /\ type = "mock" THEN ms
             ELSE createMockDefinition(ms, arg, type, expName, FALSE, arg)

\* for (const arg of args) { ... this.createMockDefinition(arg, type, expName) }
RECURSIVE MockEachArgument(_, _, _)
MockEachArgument(ms, args, type) ==
    IF args = <<>> THEN ms
    ELSE LET arg == Head(args)
             expName == getNameOfExpression(arg)
         IN  MockEachArgument(
                 IF expName = "" /\ type = "mock" THEN ms
                 ELSE createMockDefinition(ms, arg, type, expName, FALSE, arg),
                 Tail(args), type)

\* (a variant that removes every request call)
RemovesAlways(mockIdentifier) == TRUE

\* if (mockIdentifier.remove) { path.remove(); }
Removes(mockIdentifier) == mockIdentifier.remove

\* visitor.CallExpression: the registry, the explicit mocks, and whether the call is removed
CallExpressionVisitor(cfg, ms, existing, node) ==
    LET mockIdentifier == isMockObjCallExpession(cfg, node)
        args == Tail(node.kids)
        same == [mocks |-> ms, existingJestMocks |-> existing, removed |-> FALSE]
    IN  IF mockIdentifier # NoIdentifier
        THEN LET isWithImplementation ==
                     /\ Len(args) = 2
                     /\ ~isIdentifier(args[2])
                     /\ ~isMemberExpression(args[2])
             IN  IF isWithImplementation
                 THEN LET expName == getNameOfExpression(args[1]) IN
                      IF expName = "" /\ mockIdentifier.type = "mock" THEN same
                      ELSE [mocks |-> IF isExpression(args[2])
                                      THEN createMockDefinition(ms, args[1], mockIdentifier.type,
                                                                expName, TRUE, args[2])
                                      ELSE ms,
                            existingJestMocks |-> existing,
                            removed |-> Removes(mockIdentifier)]
                 ELSE [mocks |-> MockEachArgument(ms, args, mockIdentifier.type),
                       existingJestMocks |-> existing,
                       removed |-> Removes(mockIdentifier)]
        ELSE IF isJestMockCallExpression(cfg, node)
        THEN IF args = <<>> \/ ~isStringLiteral(args[1]) THEN same
             ELSE [same EXCEPT !.existingJestMocks = Append(existing, args[1].name)]
        ELSE same

(* ----------------------- module mock aggregator ------------------------ *)

\* mocksForModule is a plain object {}: reading one of these keys before it is
\* assigned yields the inherited (truthy, not an array) member of Object.prototype
ObjectPrototypeKeys ==
    {"constructor", "toString", "toLocaleString", "valueOf", "hasOwnProperty",
     "isPrototypeOf", "propertyIsEnumerable", "__proto__"}

\* Function.length of the inherited member (what `mocks.length === 0` reads)
PrototypeLength(key) ==
    IF key \in {"toString", "toLocaleString", "valueOf"} THEN 0 ELSE 1

\* one element of ModuleMockDefinition[key]; subProperty "" is undefined
ModuleMock(expression, subProperty, type, importDef) ==
    [expression |-> expression, subProperty |-> subProperty, type |-> type,
     importDef |-> importDef]

\* the object's own keys in insertion order: a sequence of [key, mocks, inherited];
\* inherited: the value is a member of Object.prototype assigned back as own property
OwnIndex(def, key) ==
    IF \E k \in 1..Len(def) : def[k].key = key
    THEN CHOOSE k \in 1..Len(def) : def[k].key = key
    ELSE 0

ObjectAssign(def, key, arr, inherited) ==
    LET at == OwnIndex(def, key)
        e == [key |-> key, mocks |-> arr, inherited |-> inherited]
    IN  IF at = 0 THEN Append(def, e) ELSE [def EXCEPT ![at] = e]

\* mocksForModule[key] || []: an array, or the inherited member (array FALSE)
ObjectRead(def, key) ==
    LET at == OwnIndex(def, key) IN
    IF at # 0 THEN [array |-> ~def[at].inherited, mocks |-> def[at].mocks]
    ELSE IF key \in ObjectPrototypeKeys THEN [array |-> FALSE, mocks |-> <<>>]
    ELSE [array |-> TRUE, mocks |-> <<>>]

\* (a variant that only refuses more than 2 sub properties)
NamespaceKeepsUpToTwo(m) == Len(m.subProperties) <= 2

\* won't support deep nesting: the namespace branch keeps 1 or 2 sub properties
NamespaceKeeps(m) == Len(m.subProperties) = 1 \/ Len(m.subProperties) = 2

\* won't support deep nesting: the other branch keeps 0 or 1 sub properties
ImportKeeps(m) == ~(Len(m.subProperties) > 1)

\* mocksForModuleIdentifier.forEach of the namespace branch; acc = [def, threw]
RECURSIVE NamespaceEach(_, _, _)
NamespaceEach(acc, ms, i) ==
    IF ms = <<>> \/ acc.threw THEN acc
    ELSE LET m == Head(ms) IN
         IF ~NamespaceKeeps(m) THEN NamespaceEach(acc, Tail(ms), i)
         ELSE LET key == IF m.subProperties = <<>> THEN "undefined" ELSE m.subProperties[1]
                  subProperty == IF Len(m.subProperties) = 2 THEN m.subProperties[2] ELSE ""
                  mockArr == ObjectRead(acc.def, key)
              IN  IF ~mockArr.array
                  THEN [acc EXCEPT !.threw = TRUE]     \* mockArr.push is not a function
                  ELSE NamespaceEach(
                           [acc EXCEPT !.def = ObjectAssign(acc.def, key,
                                                  Append(mockArr.mocks,
                                                         ModuleMock(m.expression, subProperty,
                                                                    m.type, i)),
                                                  FALSE)],
                           Tail(ms), i)

\* the elements the forEach of the other branch pushes
RECURSIVE ImportPushes(_, _)
ImportPushes(ms, i) ==
    IF ms = <<>> THEN <<>>
    ELSE LET m == Head(ms) IN
         IF ~ImportKeeps(m) THEN ImportPushes(Tail(ms), i)
         ELSE <<ModuleMock(m.expression,
                           IF m.subProperties = <<>> THEN "" ELSE m.subProperties[1],
                           m.type, i)>> \o ImportPushes(Tail(ms), i)

\* (a variant that takes the local name for every import)
ModuleIdentifierNameLocal(i) == i.name

\* the key of the module export an import of type default or import is mocked under
ModuleIdentifierName(i) == IF i.type = "default" THEN "default" ELSE i.name

\* the body of `for (const i of importsFromModule)`; acc = [def, threw]
AggregateImport(acc, ms, i) ==
    LET moduleIdentifierName == ModuleIdentifierName(i)
        mocksForModuleIdentifier == MapGet(ms, i.name)
    IN  IF mocksForModuleIdentifier = <<>> THEN acc
        ELSE IF i.type = "namespace" THEN NamespaceEach(acc, mocksForModuleIdentifier, i)
        ELSE LET mocksArr == ObjectRead(acc.def, moduleIdentifierName)
                 pushes == ImportPushes(mocksForModuleIdentifier, i)
             IN  IF mocksArr.array
                 THEN [acc EXCEPT !.def = ObjectAssign(acc.def, moduleIdentifierName,
                                                       mocksArr.mocks \o pushes, FALSE)]
                 ELSE IF pushes # <<>>
                 THEN [acc EXCEPT !.threw = TRUE]      \* mocksArr.push is not a function
                 ELSE IF moduleIdentifierName = "__proto__" THEN acc
                 ELSE [acc EXCEPT !.def = ObjectAssign(acc.def, moduleIdentifierName,
                                                       <<>>, TRUE)]

RECURSIVE AggregateImports(_, _, _)
AggregateImports(acc, ms, importsFromModule) ==
    IF importsFromModule = <<>> \/ acc.threw THEN acc
    ELSE AggregateImports(AggregateImport(acc, ms, Head(importsFromModule)), ms,
                          Tail(importsFromModule))

\* mocksForModule of one module: [def, threw]
MocksForModule(ms, importsFromModule) ==
    AggregateImports([def |-> <<>>, threw |-> FALSE], ms, importsFromModule)

(* ----------------------------- code emitter ---------------------------- *)

ObjectExpression(properties) == Node("ObjectExpression", "", properties)
ObjectProperty(key, value) == Node("ObjectProperty", key, <<value>>)
SpreadElement(argument) == Node("SpreadElement", "", <<argument>>)
isObjectProperty(n) == n.type = "ObjectProperty"

\* Object.defineProperty(o.<key>, "name", { value: "<name>" });
buildNameStatement(key, name) == Node("NameStatement", key, <<Str(name)>>)

\* the callee of the real module's load in the factory template: jest.requireActual
RequireActualCallee == Member(Id("jest"), Id("requireActual"))

\* (a variant that never loads the real module)
buildArrowFuncNoActual(statements, modulePath, objExp) ==
    Node("ArrowFunctionExpression", "", <<objExp>> \o statements)

\* () => { [const a = jest.requireActual(modulePath);] const o = OBJECT_EXP;
\*         Object.defineProperty(o, "__esModule", { value: true }); statements; return o; }
buildArrowFunc(statements, modulePath, objExp) ==
    Node("ArrowFunctionExpression", modulePath, <<objExp>> \o statements)

EveryFlat(arr) == \A k \in 1..Len(arr) : arr[k].subProperty = ""

\* the name given to a flat mock-function export
FlatStatementName(lastMock, key) ==
    IF lastMock.importDef.type = "default" THEN lastMock.importDef.name
    ELSE IF lastMock.importDef.type = "namespace" THEN lastMock.importDef.name \o "." \o key
    ELSE key

\* the name given to a nested mock-function export
NestedStatementName(m, key) ==
    IF m.importDef.type = "default" THEN m.importDef.name \o "." \o m.subProperty
    ELSE m.importDef.name \o "." \o key \o "." \o m.subProperty

\* (a variant that starts a new object for every sub property)
NestedValueFresh(value) == Node("ObjectExpression", "", <<>>)

\* prop.value && t.isObjectExpression(prop.value) ? prop.value : t.objectExpression([])
NestedValue(value) ==
    IF isObjectExpression(value) THEN value ELSE Node("ObjectExpression", "", <<>>)

\* `for (const m of mocks)` of the nested branch; acc = [value, statements]
RECURSIVE NestedEach(_, _, _, _)
NestedEach(cfg, acc, arr, key) ==
    IF arr = <<>> THEN acc
    ELSE LET m == Head(arr) IN
         IF m.subProperty = ""
         THEN NestedEach(cfg, [acc EXCEPT !.value = m.expression], Tail(arr), key)
         ELSE LET v0 == NestedValue(acc.value)
                  v1 == IF cfg.requireActual /\ Len(v0.kids) = 0
                        THEN [v0 EXCEPT !.kids = <<SpreadElement(Member(Id("a"), Id(key)))>>]
                        ELSE v0
                  v2 == [v1 EXCEPT !.kids = Append(v1.kids,
                                                   ObjectProperty(m.subProperty, m.expression))]
              IN  NestedEach(cfg,
                             [value |-> v2,
                              statements |->
                                  IF m.type = "mock"
                                  THEN Append(acc.statements,
                                              <<key, m.subProperty, NestedStatementName(m, key)>>)
                                  ELSE acc.statements],
                             Tail(arr), key)

\* `for (const key of Object.keys(def))`; acc = [topLevelProps, statements, threw];
\* a statement is <<firstKey, secondKey, name>>, secondKey "" when the key has no "."
RECURSIVE EachKey(_, _, _)
EachKey(cfg, acc, def) ==
    IF def = <<>> \/ acc.threw THEN acc
    ELSE LET key == Head(def).key
             arr == Head(def).mocks
         IN  IF Head(def).inherited
             THEN IF PrototypeLength(key) = 0 THEN EachKey(cfg, acc, Tail(def))
                  ELSE [acc EXCEPT !.threw = TRUE]     \* mocks.every is not a function
             ELSE IF Len(arr) = 0 THEN EachKey(cfg, acc, Tail(def))
             ELSE IF EveryFlat(arr)
             THEN LET lastMock == arr[Len(arr)] IN
                  EachKey(cfg,
                          [acc EXCEPT
                              !.topLevelProps = Append(@, ObjectProperty(key, lastMock.expression)),
                              !.statements =
                                  IF lastMock.type = "mock"
                                  THEN Append(@, <<key, "", FlatStatementName(lastMock, key)>>)
                                  ELSE @],
                          Tail(def))
             ELSE LET n == NestedEach(cfg,
                                      [value |-> ObjectExpression(<<>>), statements |-> <<>>],
                                      arr, key)
                  IN  EachKey(cfg,
                              [acc EXCEPT
                                  !.topLevelProps = Append(@, ObjectProperty(key, n.value)),
                                  !.statements = @ \o n.statements],
                              Tail(def))

\* "Filter out non-existed keys": the statement's location is in the literal
KeyExists(topLevelProps, st) ==
    LET firstKey == st[1]
        secondKey == st[2]
        found == {k \in 1..Len(topLevelProps) : topLevelProps[k].name = firstKey}
    IN  IF found = {} THEN FALSE
        ELSE LET prop == topLevelProps[CHOOSE k \in found : \A j \in found : k <= j] IN
             IF secondKey = "" THEN TRUE
             ELSE IF ~isObjectExpression(prop.kids[1]) THEN FALSE
             ELSE \E k \in 1..Len(prop.kids[1].kids) :
                      /\ isObjectProperty(prop.kids[1].kids[k])
                      /\ prop.kids[1].kids[k].name = secondKey

RECURSIVE NameStatements(_, _)
NameStatements(topLevelProps, statements) ==
    IF statements = <<>> THEN <<>>
    ELSE LET st == Head(statements)
             rest == NameStatements(topLevelProps, Tail(statements))
         IN  IF KeyExists(topLevelProps, st)
             THEN <<buildNameStatement(IF st[2] = "" THEN st[1] ELSE st[1] \o "." \o st[2],
                                      st[3])>> \o rest
             ELSE rest

\* createModuleMockImpl(path, def): [fn, threw]
createModuleMockImpl(cfg, path, def) ==
    LET r == EachKey(cfg, [topLevelProps |-> <<>>, statements |-> <<>>, threw |-> FALSE], def)
        objExp == ObjectExpression(IF cfg.requireActual
                                   THEN <<SpreadElement(Id("a"))>> \o r.topLevelProps
                                   ELSE r.topLevelProps)
    IN  [fn |-> buildArrowFunc(NameStatements(r.topLevelProps, r.statements),
                               IF cfg.requireActual THEN path ELSE "", objExp),
         threw |-> r.threw]

\* buildJestMockForModule(source, mocks): [stmt, threw]
buildJestMockForModule(cfg, source, def) ==
    LET impl == createModuleMockImpl(cfg, source, def) IN
    [stmt |-> Call(Member(Id(cfg.jestIdentifier), Id("mock")), <<Str(source), impl.fn>>),
     threw |-> impl.threw]

\* (a variant that looks at the first explicit mock only)
IncludesFirst(seq, x) == seq # <<>> /\ seq[1] = x

\* this.existingJestMocks.includes(modulePath)
Includes(seq, x) == \E k \in 1..Len(seq) : seq[k] = x

\* (a variant that appends: body.push(stmt))
Push(b, stmt) == Append(b, stmt)

\* this.program.node.body.unshift(stmt)
Unshift(b, stmt) == <<stmt>> \o b

\* `for (const [modulePath, importsFromModule] of this.importIdentifiers)`; acc = [body, threw]
RECURSIVE EachModule(_, _, _, _, _)
EachModule(cfg, acc, ii, ms, existing) ==
    IF ii = <<>> \/ acc.threw THEN acc
    ELSE LET modulePath == Head(ii).path
             rest == Tail(ii)
         IN  IF Includes(existing, modulePath) THEN EachModule(cfg, acc, rest, ms, existing)
             ELSE LET mocksForModule == MocksForModule(ms, Head(ii).defs) IN
                  IF mocksForModule.threw THEN [acc EXCEPT !.threw = TRUE]
                  ELSE IF Len(mocksForModule.def) = 0
                  THEN EachModule(cfg, acc, rest, ms, existing)
                  ELSE LET built == buildJestMockForModule(cfg, modulePath, mocksForModule.def)
                       IN  IF built.threw THEN [acc EXCEPT !.threw = TRUE]
                           ELSE EachModule(cfg, [acc EXCEPT !.body = Unshift(acc.body, built.stmt)],
                                           rest, ms, existing)

\* post(): [body, threw]
post(cfg, prog, b, ii, ms, existing) ==
    IF ~prog THEN [body |-> b, threw |-> FALSE]
    ELSE IF DOMAIN ms = {} \/ Len(ii) = 0 THEN [body |-> b, threw |-> FALSE]
    ELSE EachModule(cfg, [body |-> b, threw |-> FALSE], ii, ms, existing)

(* --------------------------- the pass, as steps ------------------------ *)

\* the local names the file has bound so far (a binding is declared once per file)
BoundNames(stmts) ==
    UNION {{stmts[k].kids[j].name : j \in 1..Len(stmts[k].kids)} :
              k \in {x \in 1..Len(stmts) : stmts[x].type = "ImportDeclaration"}}

\* pre(): the state of a fresh pass over a file with the given configuration and prologue
InitWith(Configs, Prologues) ==
    /\ config \in Configs
    /\ directives \in Prologues
    /\ file = <<>>
    /\ body = <<>>
    /\ program = FALSE
    /\ importIdentifiers = <<>>
    /\ mocks = [x \in {} |-> <<>>]
    /\ existingJestMocks = <<>>
    /\ pc = "pre"

\* visitor.Program
Program ==
    /\ pc = "pre"
    /\ program' = TRUE
    /\ pc' = "traverse"
    /\ UNCHANGED <<config, directives, file, body, importIdentifiers, mocks, existingJestMocks>>

\* the traversal reaches an import declaration of the file
VisitImportDeclaration(Decls) ==
    \E node \in Decls :
        /\ pc = "traverse"
        /\ Len(file) < MaxStmts
        /\ \A j \in 1..Len(node.kids) :
               /\ node.kids[j].name \notin BoundNames(file)
               /\ \A i \in 1..Len(node.kids) : i # j => node.kids[i].name # node.kids[j].name
        /\ file' = Append(file, node)
        /\ body' = Append(body, node)
        /\ importIdentifiers' = ImportDeclarationVisitor(importIdentifiers, node)
        /\ UNCHANGED <<config, directives, program, mocks, existingJestMocks, pc>>

\* the traversal reaches a call expression statement of the file
VisitCallExpression(Calls) ==
    \E node \in Calls :
        /\ pc = "traverse"
        /\ Len(file) < MaxStmts
        /\ LET r == CallExpressionVisitor(config, mocks, existingJestMocks, node) IN
               /\ mocks' = r.mocks
               /\ existingJestMocks' = r.existingJestMocks
               /\ body' = IF r.removed THEN body ELSE Append(body, node)
        /\ file' = Append(file, node)
        /\ UNCHANGED <<config, directives, program, importIdentifiers, pc>>

\* the traversal is over: post()
Post ==
    /\ pc = "traverse"
    /\ LET r == post(config, program, body, importIdentifiers, mocks, existingJestMocks) IN
           /\ body' = r.body
           /\ pc' = IF r.threw THEN "threw" ELSE "done"
    /\ UNCHANGED <<config, directives, file, program, importIdentifiers, mocks,
                   existingJestMocks>>

(* ------------------------------ the files ------------------------------ *)

\* import A from "./a"; import { default as C } from "./a";
\* import * as N from "./b"; import { X as B } from "./b";
Imports ==
    {ImportDecl("./a", <<ImportDefaultSpecifier("A")>>),
     ImportDecl("./a", <<ImportSpecifier("default", "C")>>),
     ImportDecl("./b", <<ImportNamespaceSpecifier("N")>>),
     ImportDecl("./b", <<ImportSpecifier("X", "B")>>)}

JestCall(method, args) == Call(Member(Id("jest"), Id(method)), args)

\* explicit registrations: jest.mock("./a"); jest.unmock("./b");
IgnoreCalls == {JestCall("mock", <<Str("./a")>>), JestCall("unmock", <<Str("./b")>>)}

\* the paths mocked: root and segments
Targets ==
    {<<"A">>, <<"A", "p">>, <<"A", "q">>, <<"A", "p", "q">>,
     <<"N", "B">>, <<"N", "B", "p">>, <<"N", "B", "p", "q">>, <<"B">>}

Target(path) == Chain(Head(path), Tail(path))

\* a request call: the callee's method, the paths given, the replacement given (if any)
Request(method, paths, explicit, impl) ==
    [method |-> method, paths |-> paths, explicit |-> explicit, impl |-> impl]

RequestCall(d) ==
    JestCall(d.method,
             [k \in 1..Len(d.paths) |-> Target(d.paths[k])]
                 \o (IF d.explicit THEN <<d.impl>> ELSE <<>>))

\* jest.mockObj(X.p...) for every target, and jest.mockObj(C, "v")
Requests ==
    {Request("mockObj", <<path>>, FALSE, Str("")) : path \in Targets}
    \cup {Request("mockObj", <<<<"C">>>>, TRUE, Str("v"))}

RequestCalls == {RequestCall(d) : d \in Requests}

Calls == IgnoreCalls \cup RequestCalls

Init == InitWith({defaultConfig}, {<<>>})

Next ==
    \/ Program
    \/ VisitImportDeclaration(Imports)
    \/ VisitCallExpression(Calls)
    \/ Post

Spec == Init /\ [][Next]_vars

(* ---------------- files for the default replacement values ------------- *)

\* import A from "./a"; import * as N from "./b";
ValueImports ==
    {ImportDecl("./a", <<ImportDefaultSpecifier("A")>>),
     ImportDecl("./b", <<ImportNamespaceSpecifier("N")>>)}

ValueTargets ==
    {<<"A">>, <<"A", "p">>, <<"N", "B">>, <<"N", "B", "p">>, <<"N", "B", "p", "q">>}

\* jest.mockObj(X.p...), jest.mockFn(X.p...), jest.mockFn(A.p, N.B), jest.mockFn(A, "v")
ValueRequests ==
    {Request(method, <<path>>, FALSE, Str("")) :
        method \in {"mockObj", "mockFn"}, path \in ValueTargets}
    \cup {Request("mockFn", <<<<"A", "p">>, <<"N", "B">>>>, FALSE, Str("")),
          Request("mockFn", <<<<"A">>>>, TRUE, Str("v"))}

ValueCalls == {RequestCall(d) : d \in ValueRequests}

NextValues ==
    \/ Program
    \/ VisitImportDeclaration(ValueImports)
    \/ VisitCallExpression(ValueCalls)
    \/ Post

SpecValues == Init /\ [][NextValues]_vars

(* ------------------ files with a directive prologue -------------------- *)

Directive(value) == Node("Directive", value, <<>>)

Prologues == {<<>>, <<Directive("use strict")>>}

\* import A from "./a"; import { B } from "./b";
PrologueImports ==
    {ImportDecl("./a", <<ImportDefaultSpecifier("A")>>),
     ImportDecl("./b", <<ImportSpecifier("B", "B")>>)}

PrologueRequests ==
    {Request("mockObj", <<<<"A">>>>, FALSE, Str("")),
     Request("mockObj", <<<<"B">>>>, FALSE, Str("")),
     Request("mockFn", <<<<"A">>, <<"B">>>>, FALSE, Str(""))}

\* a call of the file that the plugin has nothing to do with: setup();
OtherCalls == {Call(Id("setup"), <<>>)}

PrologueCalls ==
    {RequestCall(d) : d \in PrologueRequests}
    \cup {JestCall("doMock", <<Str("./a")>>)}
    \cup OtherCalls

InitPrologue == InitWith({defaultConfig}, Prologues)

NextPrologue ==
    \/ Program
    \/ VisitImportDeclaration(PrologueImports)
    \/ VisitCallExpression(PrologueCalls)
    \/ Post

SpecPrologue == InitPrologue /\ [][NextPrologue]_vars

\* the file the generator prints: the directive prologue, then the body
Output == directives \o body

(* ----------------------- the pass as one function ---------------------- *)

\* the traversal of the statements from a pass state [body, importIdentifiers, mocks,
\* existingJestMocks]
RECURSIVE Traverse(_, _, _)
Traverse(cfg, st, stmts) ==
    IF stmts = <<>> THEN st
    ELSE LET node == Head(stmts) IN
         IF node.type = "ImportDeclaration"
         THEN Traverse(cfg,
                       [st EXCEPT !.body = Append(@, node),
                                  !.importIdentifiers = ImportDeclarationVisitor(@, node)],
                       Tail(stmts))
         ELSE LET r == CallExpressionVisitor(cfg, st.mocks, st.existingJestMocks, node) IN
              Traverse(cfg,
                       [st EXCEPT !.body = IF r.removed THEN @ ELSE Append(@, node),
                                  !.mocks = r.mocks,
                                  !.existingJestMocks = r.existingJestMocks],
                       Tail(stmts))

\* pre(), the traversal of the file's body and post(): [body, threw]
Transform(cfg, stmts) ==
    LET st == Traverse(cfg,
                       [body |-> <<>>, importIdentifiers |-> <<>>,
                        mocks |-> [x \in {} |-> <<>>], existingJestMocks |-> <<>>],
                       stmts)
    IN  post(cfg, TRUE, st.body, st.importIdentifiers, st.mocks, st.existingJestMocks)

(* ------------------ reading the file and the output -------------------- *)

KnownRequests == Requests \cup ValueRequests \cup PrologueRequests

KnownIgnoreCalls == IgnoreCalls \cup {JestCall("doMock", <<Str("./a")>>)}

KnownRequestCalls == {RequestCall(d) : d \in KnownRequests}

RequestOfCall == [c \in KnownRequestCalls |-> CHOOSE d \in KnownRequests : RequestCall(d) = c]

AsksToMock(stmt) == stmt \in KnownRequestCalls

RequestOf(stmt) == RequestOfCall[stmt]

\* the module an explicit registration call names
IgnoredModule(stmt) == stmt.kids[2].name

\* the requests of one call, one per path: root, segments, kind, replacement given
AskedBy(d) ==
    [k \in 1..Len(d.paths) |->
        [root |-> Head(d.paths[k]),
         segs |-> Tail(d.paths[k]),
         kind |-> IF d.method = "mockObj" THEN "NameMock" ELSE "FunctionMock",
         explicit |-> d.explicit,
         impl |-> d.impl]]

\* the requests of the file, in file order
RECURSIVE Asked(_)
Asked(stmts) ==
    IF stmts = <<>> THEN <<>>
    ELSE (IF AsksToMock(Head(stmts)) THEN AskedBy(RequestOf(Head(stmts))) ELSE <<>>)
             \o Asked(Tail(stmts))

\* the import bindings of the file: local name, module path, kind
BindingKind(specifier) ==
    IF specifier.type = "ImportNamespaceSpecifier" THEN "Namespace"
    ELSE IF specifier.type = "ImportDefaultSpecifier" THEN "Default"
    ELSE IF specifier.kids = <<Id("default")>> THEN "Default"
    ELSE "Named"

Bindings(stmts) ==
    UNION {{[local |-> stmts[k].kids[j].name,
             path |-> stmts[k].name,
             kind |-> BindingKind(stmts[k].kids[j])] : j \in 1..Len(stmts[k].kids)} :
              k \in {x \in 1..Len(stmts) : stmts[x].type = "ImportDeclaration"}}

\* the module paths of the file in the order of their first import
RECURSIVE ImportOrder(_)
ImportOrder(stmts) ==
    IF stmts = <<>> THEN <<>>
    ELSE LET before == ImportOrder(SubSeq(stmts, 1, Len(stmts) - 1))
             last == stmts[Len(stmts)]
         IN  IF /\ last.type = "ImportDeclaration"
                /\ last.kids # <<>>
                /\ \A k \in 1..Len(before) : before[k] # last.name
             THEN Append(before, last.name)
             ELSE before

\* the module is named by an explicit registration call of the file
Suppressed(stmts, path) ==
    \E k \in 1..Len(stmts) :
        stmts[k] \in KnownIgnoreCalls /\ IgnoredModule(stmts[k]) = path

\* a registration statement: <jest>.mock("<path>", () => {...})
IsRegistration(stmt) ==
    /\ stmt.type = "CallExpression"
    /\ Len(stmt.kids) = 3
    /\ stmt.kids[3].type = "ArrowFunctionExpression"

RegisteredModule(stmt) == stmt.kids[2].name

\* the mocked entries of an object literal (the spreads left out)
RECURSIVE MockedEntries(_)
MockedEntries(props) ==
    IF props = <<>> THEN <<>>
    ELSE (IF Head(props).type = "ObjectProperty" THEN <<Head(props)>> ELSE <<>>)
             \o MockedEntries(Tail(props))

\* the mocked export entries of a registration's factory
ExportEntries(stmt) == MockedEntries(stmt.kids[3].kids[1].kids)

\* the positions of the registrations in a body, and those of a module
RegistrationsIn(b) == {k \in 1..Len(b) : IsRegistration(b[k])}

RegistrationsOf(b, path) == {k \in RegistrationsIn(b) : RegisteredModule(b[k]) = path}

\* the registrations of a body, in order
RECURSIVE Registrations(_)
Registrations(b) ==
    IF b = <<>> THEN <<>>
    ELSE (IF IsRegistration(Head(b)) THEN <<Head(b)>> ELSE <<>>) \o Registrations(Tail(b))

\* the module paths of the registrations of a body, in order
RegisteredModules(b) ==
    [k \in 1..Len(Registrations(b)) |-> RegisteredModule(Registrations(b)[k])]

\* the binding of a local name among the bindings bs
IsBound(bs, root) == \E b \in bs : b.local = root

BindingOf(bs, root) == CHOOSE b \in bs : b.local = root

\* the export key and the sub-key ("" for none) a request is mocked under
ExportKey(b, segs) ==
    IF b.kind = "Default" THEN "default"
    ELSE IF b.kind = "Named" THEN b.local
    ELSE segs[1]

SubKey(b, segs) ==
    IF b.kind = "Namespace"
    THEN IF Len(segs) >= 2 THEN segs[2] ELSE ""
    ELSE IF Len(segs) >= 1 THEN segs[1] ELSE ""

\* deeper than one level below the export key
TooDeep(b, segs) ==
    IF b.kind = "Namespace" THEN Len(segs) >= 3 ELSE Len(segs) >= 2

\* no export entry comes of the request
Dropped(b, segs) == TooDeep(b, segs) \/ (b.kind = "Namespace" /\ segs = <<>>)

\* root.seg1...segN
RECURSIVE Dotted(_, _)
Dotted(root, segs) ==
    IF segs = <<>> THEN root ELSE Dotted(root \o "." \o Head(segs), Tail(segs))

\* the mock function generated with a tag: jest.fn().mockName("<tag>")
TaggedMockFn(tag) ==
    Node("CallExpression", "",
         <<Node("MemberExpression", "",
                <<Node("CallExpression", "",
                       <<Node("MemberExpression", "", <<Id("jest"), Id("fn")>>)>>),
                  Id("mockName")>>),
           Str(tag)>>)

\* the replacement a request without one is given
DefaultReplacement(r) ==
    IF r.kind = "NameMock"
    THEN Str(IF r.segs = <<>> THEN r.root ELSE r.segs[Len(r.segs)])
    ELSE TaggedMockFn(Dotted(r.root, r.segs))

Replacement(r) == IF r.explicit THEN r.impl ELSE DefaultReplacement(r)

\* the requests of rs on a root name, in file order
RECURSIVE OnRoot(_, _)
OnRoot(rs, root) ==
    IF rs = <<>> THEN <<>>
    ELSE (IF Head(rs).root = root THEN <<Head(rs)>> ELSE <<>>) \o OnRoot(Tail(rs), root)

\* the requests of the file that yield an export entry, each with the module path, the
\* export key and the sub-key it is mocked under, in file order
RECURSIVE Kept(_, _)
Kept(bs, rs) ==
    IF rs = <<>> THEN <<>>
    ELSE LET r == Head(rs) IN
         (IF IsBound(bs, r.root) /\ ~Dropped(BindingOf(bs, r.root), r.segs)
          THEN <<[root |-> r.root,
                  path |-> BindingOf(bs, r.root).path,
                  key |-> ExportKey(BindingOf(bs, r.root), r.segs),
                  sub |-> SubKey(BindingOf(bs, r.root), r.segs),
                  value |-> Replacement(r)]>>
          ELSE <<>>) \o Kept(bs, Tail(rs))

\* the kept requests that reach the export key of the module, in file order
RECURSIVE Reaching(_, _, _)
Reaching(ks, path, key) ==
    IF ks = <<>> THEN <<>>
    ELSE (IF Head(ks).path = path /\ Head(ks).key = key THEN <<Head(ks)>> ELSE <<>>)
             \o Reaching(Tail(ks), path, key)

\* the (module path, export key) pairs the kept requests reach
Reached(ks) == {<<ks[k].path, ks[k].key>> : k \in 1..Len(ks)}

KeptOf(stmts) == Kept(Bindings(stmts), Asked(stmts))

\* the export entry of a registration under a key
HasEntry(stmt, key) ==
    \E k \in 1..Len(ExportEntries(stmt)) : ExportEntries(stmt)[k].name = key

EntryValue(stmt, key) ==
    ExportEntries(stmt)[CHOOSE k \in 1..Len(ExportEntries(stmt)) :
                            ExportEntries(stmt)[k].name = key].kids[1]

\* the module's registration holds the value under the key
Emits(b, path, key, value) ==
    \E k \in RegistrationsOf(b, path) :
        HasEntry(b[k], key) /\ EntryValue(b[k], key) = value

\* the sub-keys of a nested object, in order
SubKeysIn(obj) == [i \in 1..Len(MockedEntries(obj.kids)) |-> MockedEntries(obj.kids)[i].name]

\* the file without its requests that are too deep
WithoutTooDeepPaths(bs, paths) ==
    LET keep(k) == ~(IsBound(bs, Head(paths[k]))
                       /\ TooDeep(BindingOf(bs, Head(paths[k])), Tail(paths[k])))
        F[k \in 0..Len(paths)] ==
            IF k = 0 THEN <<>>
            ELSE IF keep(k) THEN Append(F[k - 1], paths[k]) ELSE F[k - 1]
    IN  F[Len(paths)]

RECURSIVE WithoutTooDeepFrom(_, _)
WithoutTooDeepFrom(bs, rest) ==
    IF rest = <<>> THEN <<>>
    ELSE LET s == Head(rest)
             tail == WithoutTooDeepFrom(bs, Tail(rest))
         IN  IF ~AsksToMock(s) THEN <<s>> \o tail
             ELSE LET d == RequestOf(s)
                      kept == WithoutTooDeepPaths(bs, d.paths)
                  IN  IF kept = <<>> THEN tail
                      ELSE <<RequestCall([d EXCEPT !.paths = kept])>> \o tail

WithoutTooDeep(stmts) == WithoutTooDeepFrom(Bindings(stmts), stmts)

(* -------------------------------- claims ------------------------------- *)

\* C1. Suppression, independent of position: when the file holds an explicit
\* registration call (jest.mock, jest.doMock, jest.unmock, jest.dontMock) with the
\* string literal M as first argument, anywhere before or after the requests, the
\* output holds no inserted registration statement for M.
C1_Suppression ==
    pc = "done" =>
        \A k \in 1..Len(file) :
            file[k] \in KnownIgnoreCalls =>
                RegistrationsOf(body, IgnoredModule(file[k])) = {}

\* C1's case: a default import of "./a" is requested and the explicit jest.mock("./a")
\* comes after the request.
C1_Witness ==
    /\ pc = "done"
    /\ \E i, j, k \in 1..Len(file) :
           /\ i < j /\ j < k
           /\ file[i] = ImportDecl("./a", <<ImportDefaultSpecifier("A")>>)
           /\ file[j] = RequestCall(Request("mockObj", <<<<"A">>>>, FALSE, Str("")))
           /\ file[k] = JestCall("mock", <<Str("./a")>>)

\* C6. No empty factory: every inserted registration statement has a factory whose
\* export mapping holds at least one mocked export entry.
C6_NoEmptyFactory ==
    pc = "done" =>
        \A k \in RegistrationsIn(body) : ExportEntries(body[k]) # <<>>

\* C7. No-op: a file without any mock-request call is returned as it was: nothing
\* inserted, nothing deleted.
C7_NoOp ==
    (pc = "done" /\ \A k \in 1..Len(file) : ~AsksToMock(file[k])) => body = file

\* C7's case: imports and an explicit registration call, no request, the pass is over.
C7_Witness ==
    /\ pc = "done"
    /\ \A k \in 1..Len(file) : ~AsksToMock(file[k])
    /\ \E i, j \in 1..Len(file) :
           file[i].type = "ImportDeclaration" /\ file[j] \in KnownIgnoreCalls
    /\ Len(file) = MaxStmts

\* C9. Insertion position: in the output every inserted registration statement comes
\* before every statement of the original body, and the directive prologue stays
\* before every inserted registration statement.
C9_InsertionPosition ==
    pc = "done" =>
        \A i, j \in 1..Len(Output) :
            /\ (IsRegistration(Output[i]) /\ ~IsRegistration(Output[j])
                    /\ Output[j].type # "Directive") => i < j
            /\ (Output[i].type = "Directive" /\ IsRegistration(Output[j])) => i < j

\* C9's case: a "use strict" prologue, a registration inserted, and statements of the
\* original body (an import and a call that stays) after it.
C9_Witness ==
    /\ pc = "done"
    /\ directives # <<>>
    /\ RegistrationsIn(body) # {}
    /\ \E i, j \in 1..Len(body) :
           body[i].type = "ImportDeclaration" /\ body[j] \in OtherCalls

\* C10. Insertion order across modules: the registration statements stand in the
\* output in the order in which their modules were first imported.
C10_InsertionOrder ==
    pc = "done" =>
        \A i, j \in 1..Len(RegisteredModules(body)) :
            i < j =>
                \E x, y \in 1..Len(ImportOrder(file)) :
                    /\ x < y
                    /\ ImportOrder(file)[x] = RegisteredModules(body)[i]
                    /\ ImportOrder(file)[y] = RegisteredModules(body)[j]

\* C2. Last write wins at a flat export key: for a module that is not suppressed and
\* an export key K of it, when no request that reaches K carries a sub-key, the value
\* emitted for K is the replacement of the request that is last in file order among
\* them, through whichever local bindings of the module they reach K.
C2_LastWriteWins ==
    pc = "done" =>
        LET ks == KeptOf(file) IN
        \A pk \in Reached(ks) :
            LET rs == Reaching(ks, pk[1], pk[2]) IN
            (/\ ~Suppressed(file, pk[1])
             /\ \A k \in 1..Len(rs) : rs[k].sub = "")
                => Emits(body, pk[1], pk[2], rs[Len(rs)].value)

\* C3. Nesting merge: requests on the same export key A with the different sub-keys
\* b1, b2, ... yield one factory with the nested object {A: {b1: v1, b2: v2, ...}};
\* when the request that is last in the file targets A itself with no sub-key and
\* replacement v3, the entry is {A: v3}, the earlier sub-keys gone.
C3_NestingMerge ==
    pc = "done" =>
        LET ks == KeptOf(file) IN
        \A pk \in Reached(ks) :
            LET rs == Reaching(ks, pk[1], pk[2]) IN
            ~Suppressed(file, pk[1])
                => /\ Cardinality(RegistrationsOf(body, pk[1])) = 1
                   /\ (/\ \A i \in 1..Len(rs) : rs[i].sub # ""
                       /\ \A i, j \in 1..Len(rs) : i # j => rs[i].sub # rs[j].sub)
                          => \E k \in RegistrationsOf(body, pk[1]) :
                                 /\ HasEntry(body[k], pk[2])
                                 /\ EntryValue(body[k], pk[2]).type = "ObjectExpression"
                                 /\ LET es == MockedEntries(EntryValue(body[k], pk[2]).kids) IN
                                    /\ Len(es) = Len(rs)
                                    /\ {es[i] : i \in 1..Len(es)} =
                                           {Node("ObjectProperty", rs[i].sub, <<rs[i].value>>) :
                                                i \in 1..Len(rs)}
                   /\ (/\ rs[Len(rs)].sub = ""
                       /\ \E i \in 1..Len(rs) : rs[i].sub # "")
                          => Emits(body, pk[1], pk[2], rs[Len(rs)].value)

\* C3, for requests made through one binding: the nested object lists the sub-keys
\* in the order of the requests, and a last request on A itself replaces them.
C3_NestingMergeOneBinding ==
    pc = "done" =>
        LET ks == KeptOf(file) IN
        \A pk \in Reached(ks) :
            LET rs == Reaching(ks, pk[1], pk[2]) IN
            (/\ ~Suppressed(file, pk[1])
             /\ \A i, j \in 1..Len(rs) : rs[i].root = rs[j].root)
                => /\ Cardinality(RegistrationsOf(body, pk[1])) = 1
                   /\ (/\ \A i \in 1..Len(rs) : rs[i].sub # ""
                       /\ \A i, j \in 1..Len(rs) : i # j => rs[i].sub # rs[j].sub)
                          => \E k \in RegistrationsOf(body, pk[1]) :
                                 /\ HasEntry(body[k], pk[2])
                                 /\ EntryValue(body[k], pk[2]).type = "ObjectExpression"
                                 /\ MockedEntries(EntryValue(body[k], pk[2]).kids) =
                                        [i \in 1..Len(rs) |->
                                            Node("ObjectProperty", rs[i].sub, <<rs[i].value>>)]
                   /\ rs[Len(rs)].sub = ""
                          => Emits(body, pk[1], pk[2], rs[Len(rs)].value)

\* C3's case through one binding: import A from "./a"; jest.mockObj(A.p);
\* jest.mockObj(A.q); jest.mockObj(A): two sub-keys, then the flat request.
C3_WitnessOneBinding ==
    /\ pc = "done"
    /\ file = <<ImportDecl("./a", <<ImportDefaultSpecifier("A")>>),
                RequestCall(Request("mockObj", <<<<"A", "p">>>>, FALSE, Str(""))),
                RequestCall(Request("mockObj", <<<<"A", "q">>>>, FALSE, Str(""))),
                RequestCall(Request("mockObj", <<<<"A">>>>, FALSE, Str("")))>>
    /\ Emits(body, "./a", "default", Str("A"))

C5_DepthLimit ==
    pc = "done" =>
        Registrations(body) = Registrations(Transform(config, WithoutTooDeep(file)).body)

\* C8. Default value policy: a request without explicit replacement made through a
\* NameMock identifier is given the string literal of the path's final segment (of the
\* root name when the path has no segment); made through a FunctionMock identifier it
\* is given a generated mock function tagged (mockName) with the full dotted path
\* root.seg1...segN of the argument.
C8_DefaultValue ==
    LET rs == Asked(file) IN
    \A root \in {rs[k].root : k \in 1..Len(rs)} :
        LET on == OnRoot(rs, root)
            got == IF root \in DOMAIN mocks THEN mocks[root] ELSE <<>>
        IN  /\ Len(got) = Len(on)
            /\ \A k \in 1..Len(on) :
                   /\ got[k].subProperties = on[k].segs
                   /\ ~on[k].explicit => got[k].expression = DefaultReplacement(on[k])

\* C8's case: jest.mockFn(N.B.p) has been given jest.fn().mockName("N.B.p") and
\* jest.mockObj(A) the string "A".
C8_Witness ==
    /\ "N" \in DOMAIN mocks
    /\ \E k \in 1..Len(mocks["N"]) :
           /\ mocks["N"][k].subProperties = <<"B", "p">>
           /\ mocks["N"][k].expression = TaggedMockFn("N.B.p")
    /\ "A" \in DOMAIN mocks
    /\ \E k \in 1..Len(mocks["A"]) :
           /\ mocks["A"][k].subProperties = <<>>
           /\ mocks["A"][k].expression = Str("A")
    /\ \E k \in 1..Len(file) :
           file[k] = RequestCall(Request("mockObj", <<<<"A">>>>, FALSE, Str("")))

(* --------------------- files with every shape of call ------------------ *)

\* import A from "./a"; import * as N from "./b";
ShapeImports ==
    {ImportDecl("./a", <<ImportDefaultSpecifier("A")>>),
     ImportDecl("./b", <<ImportNamespaceSpecifier("N")>>)}

\* an argument that is no path: setup()
CallResult == Call(Id("setup"), <<>>)

\* an argument that is no expression: ...xs
SpreadArgument == Node("SpreadElement", "", <<Id("xs")>>)

\* jest.mockObj(A); jest.mockObj(U); jest.mockObj(U, A); jest.mockObj(N);
\* jest.mockObj(N.B); jest.mockObj(A, "v"); jest.mockFn(A, "v"); jest.mockFn(setup(), "v");
\* jest.mockFn(setup(), A); jest.mockObj(A, ...xs); jest.mock("./a");
ShapeCalls ==
    {JestCall("mockObj", <<Id("A")>>),
     JestCall("mockObj", <<Id("U")>>),
     JestCall("mockObj", <<Id("U"), Id("A")>>),
     JestCall("mockObj", <<Id("N")>>),
     JestCall("mockObj", <<Member(Id("N"), Id("B"))>>),
     JestCall("mockObj", <<Id("A"), Str("v")>>),
     JestCall("mockFn", <<Id("A"), Str("v")>>),
     JestCall("mockFn", <<CallResult, Str("v")>>),
     JestCall("mockFn", <<CallResult, Id("A")>>),
     JestCall("mockObj", <<Id("A"), SpreadArgument>>),
     JestCall("mock", <<Str("./a")>>)}

NextShapes ==
    \/ Program
    \/ VisitImportDeclaration(ShapeImports)
    \/ VisitCallExpression(ShapeCalls)
    \/ Post

SpecShapes == Init /\ [][NextShapes]_vars

(* ------------------------- reading a call's shape ---------------------- *)

\* the path an expression denotes: root and segments, when it is an identifier or a
\* chain of member accesses on one
RECURSIVE ReadPath(_)
ReadPath(e) ==
    IF e.type = "Identifier" THEN [ok |-> TRUE, root |-> e.name, segs |-> <<>>]
    ELSE IF e.type = "MemberExpression" /\ e.kids[2].type = "Identifier"
    THEN LET o == ReadPath(e.kids[1]) IN
         IF o.ok THEN [o EXCEPT !.segs = Append(@, e.kids[2].name)]
         ELSE [ok |-> FALSE, root |-> "", segs |-> <<>>]
    ELSE [ok |-> FALSE, root |-> "", segs |-> <<>>]

\* the dotted name of a call's callee, "" when it has none
CalleeName(stmt) ==
    LET p == ReadPath(stmt.kids[1]) IN IF p.ok THEN Dotted(p.root, p.segs) ELSE ""

\* the call is classified as a mock request of the configuration
IsRequestCall(cfg, stmt) ==
    /\ stmt.type = "CallExpression"
    /\ \E k \in 1..Len(cfg.identifiers) : cfg.identifiers[k].name = CalleeName(stmt)

\* the identifier entry a request call matches
RequestEntry(cfg, stmt) ==
    cfg.identifiers[CHOOSE k \in 1..Len(cfg.identifiers) :
                        /\ cfg.identifiers[k].name = CalleeName(stmt)
                        /\ \A j \in 1..(k - 1) : cfg.identifiers[j].name # CalleeName(stmt)]

Arguments(stmt) == Tail(stmt.kids)

\* two arguments, the second neither an identifier nor a member expression
ExplicitForm(stmt) ==
    /\ Len(Arguments(stmt)) = 2
    /\ Arguments(stmt)[2].type \notin {"Identifier", "MemberExpression"}

\* the statements with every request call rewritten by Rewrite (to <<>> or <<call>>)
RewriteRequests(cfg, stmts, Rewrite(_)) ==
    LET F[k \in 0..Len(stmts)] ==
            IF k = 0 THEN <<>>
            ELSE F[k - 1] \o (IF IsRequestCall(cfg, stmts[k]) THEN Rewrite(stmts[k])
                              ELSE <<stmts[k]>>)
    IN  F[Len(stmts)]

\* a request call without the arguments that Drop: an explicit-form call goes when its
\* first argument does, another call keeps the arguments that stay
WithoutArguments(stmt, Drop(_)) ==
    LET args == Arguments(stmt)
        kept == SelectSeq(args, LAMBDA a : ~Drop(a))
    IN  IF ExplicitForm(stmt) THEN (IF Drop(args[1]) THEN <<>> ELSE <<stmt>>)
        ELSE IF kept = <<>> /\ args # <<>> THEN <<>>
        ELSE <<Call(stmt.kids[1], kept)>>

\* the argument is a path on a name that no import of the file binds
Unimported(bs, a) == ReadPath(a).ok /\ ~IsBound(bs, ReadPath(a).root)

\* the file without its requests on names that are not imported
WithoutUnimported(cfg, stmts) ==
    RewriteRequests(cfg, stmts,
        LAMBDA s : WithoutArguments(s, LAMBDA a : Unimported(Bindings(stmts), a)))

\* the argument is a namespace binding of the file with no segment
BareNamespace(bs, a) ==
    /\ ReadPath(a).ok
    /\ ReadPath(a).segs = <<>>
    /\ IsBound(bs, ReadPath(a).root)
    /\ BindingOf(bs, ReadPath(a).root).kind = "Namespace"

\* the file without its requests on bare namespace bindings
WithoutBareNamespace(cfg, stmts) ==
    RewriteRequests(cfg, stmts,
        LAMBDA s : WithoutArguments(s, LAMBDA a : BareNamespace(Bindings(stmts), a)))

(* ------------------------------- claims -------------------------------- *)

\* C11. Deletion of request calls: after the pass no call classified as a mock request
\* whose identifier entry has remove = true is left in the body, whatever its arguments.
C11_Deletion ==
    pc = "done" =>
        \A k \in 1..Len(body) :
            ~(IsRequestCall(config, body[k]) /\ RequestEntry(config, body[k]).remove)

\* C13. Requests on unimported names are dropped: the registrations of the file are
\* those of the file without its requests on names no import binds; the other
\* arguments of the same calls stay.
C13_UnimportedDropped ==
    pc = "done" =>
        Registrations(body) = Registrations(Transform(config, WithoutUnimported(config, file)).body)

\* C13's case: import A from "./a"; jest.mockObj(U, A): U is not imported, and "./a"
\* is registered with the request on A.
C13_Witness ==
    /\ pc = "done"
    /\ \E k \in 1..Len(file) : file[k] = JestCall("mockObj", <<Id("U"), Id("A")>>)
    /\ Emits(body, "./a", "default", Str("A"))

\* C14. Bare namespace root is a silent no-op: the registrations of the file are those
\* of the file without its requests on a bare namespace binding, and a module that no
\* other request targets gets no registration.
C14_BareNamespace ==
    pc = "done" =>
        /\ Registrations(body) =
               Registrations(Transform(config, WithoutBareNamespace(config, file)).body)
        /\ \A b \in Bindings(file) :
               (/\ b.kind = "Namespace"
                /\ \A k \in 1..Len(file) :
                       IsRequestCall(config, file[k]) =>
                           \A j \in 1..Len(Arguments(file[k])) :
                               LET p == ReadPath(Arguments(file[k])[j]) IN
                               (p.ok /\ IsBound(Bindings(file), p.root)
                                     /\ BindingOf(Bindings(file), p.root).path = b.path)
                                   => p.segs = <<>> /\ p.root = b.local)
                   => RegistrationsOf(body, b.path) = {}

\* C14's case: import * as N from "./b"; jest.mockObj(N); with another module mocked.
C14_Witness ==
    /\ pc = "done"
    /\ \E k \in 1..Len(file) : file[k] = ImportDecl("./b", <<ImportNamespaceSpecifier("N")>>)
    /\ \E k \in 1..Len(file) : file[k] = JestCall("mockObj", <<Id("N")>>)
    /\ RegistrationsOf(body, "./a") # {}
    /\ RegistrationsOf(body, "./b") = {}

\* the registry entry of a request on path p with a replacement
Recorded(p, type, value) ==
    [root |-> p.root,
     def |-> [expression |-> value, subProperties |-> p.segs, type |-> type]]

\* the replacement of a request that gives none
DefaultValue(p, type) ==
    IF type = "name" THEN Str(IF p.segs = <<>> THEN p.root ELSE p.segs[Len(p.segs)])
    ELSE TaggedMockFn(Dotted(p.root, p.segs))

\* each argument that is a path as its own request with the default replacement
EachArgumentRecorded(args, type) ==
    LET F[k \in 0..Len(args)] ==
            IF k = 0 THEN <<>>
            ELSE IF ReadPath(args[k]).ok
                 THEN Append(F[k - 1], Recorded(ReadPath(args[k]), type,
                                                DefaultValue(ReadPath(args[k]), type)))
                 ELSE F[k - 1]
    IN  F[Len(args)]

\* what a request call records: in the explicit form one request for the first
\* argument with the second as replacement, when Replaces(second argument)
CallRecords(cfg, stmt, Replaces(_)) ==
    LET args == Arguments(stmt)
        type == RequestEntry(cfg, stmt).type
    IN  IF ExplicitForm(stmt)
        THEN IF ReadPath(args[1]).ok /\ Replaces(args[2])
             THEN <<Recorded(ReadPath(args[1]), type, args[2])>>
             ELSE <<>>
        ELSE EachArgumentRecorded(args, type)

\* what the request calls of the statements record, in file order
FileRecords(cfg, stmts, Replaces(_)) ==
    LET F[k \in 0..Len(stmts)] ==
            IF k = 0 THEN <<>>
            ELSE F[k - 1] \o (IF IsRequestCall(cfg, stmts[k])
                              THEN CallRecords(cfg, stmts[k], Replaces)
                              ELSE <<>>)
    IN  F[Len(stmts)]

\* the registry that holds the records, per root name in order
RegistryHolds(ms, records) ==
    LET roots == DOMAIN ms \cup {records[k].root : k \in 1..Len(records)}
        of(r) == LET on == SelectSeq(records, LAMBDA x : x.root = r) IN
                 [k \in 1..Len(on) |-> on[k].def]
    IN  \A r \in roots : (IF r \in DOMAIN ms THEN ms[r] ELSE <<>>) = of(r)

\* C15, as claimed. Explicit replacement rule: a request call with exactly two
\* arguments, the second neither an identifier nor a member expression, records one
\* request for the first argument with the second as replacement; every other call
\* records each argument as its own request with the default replacement.
C15_ExplicitReplacement ==
    RegistryHolds(mocks, FileRecords(config, file, LAMBDA a : TRUE))

\* C15, amended. The explicit form records its request when the second argument is an
\* expression and records nothing when it is not (a spread element); every other call
\* records each argument as its own request with the default replacement.
C15_ExplicitReplacementOfExpression ==
    RegistryHolds(mocks, FileRecords(config, file, LAMBDA a : a.type # "SpreadElement"))

\* C15's case: jest.mockObj(A, "v") has recorded "v" for A, and jest.mockFn(setup(), A)
\* has recorded A with the generated mock function.
C15_Witness ==
    /\ file = <<JestCall("mockObj", <<Id("A"), Str("v")>>),
                JestCall("mockFn", <<CallResult, Id("A")>>)>>
    /\ mocks["A"] = <<[expression |-> Str("v"), subProperties |-> <<>>, type |-> "name"],
                      [expression |-> TaggedMockFn("A"), subProperties |-> <<>>,
                       type |-> "mock"]>>

(* ----------------------- files under configurations -------------------- *)

\* { requireActual: true }
actualConfig == [defaultConfig EXCEPT !.requireActual = TRUE]

\* { identifiers: [jest.mockObj with remove: false, jest.mockFn with remove: true] }
keepConfig ==
    [defaultConfig EXCEPT
        !.identifiers = <<IdentifierConfiguration("jest.mockObj", FALSE, "name"),
                          IdentifierConfiguration("jest.mockFn", TRUE, "mock")>>]

Configs == {defaultConfig, actualConfig, keepConfig}

\* a replacement that is an object literal: { x: "v" }
ObjectReplacement == ObjectExpression(<<ObjectProperty("x", Str("v"))>>)

\* jest.mockObj(A); jest.mockFn(A); jest.mockObj(A, "v"); jest.mockObj(A, { x: "v" });
\* jest.mockObj(A.p); jest.mockFn(A.p); jest.mockObj(A.p, "v");
\* jest.mockFn(N.B); jest.mockObj(N.B.p); jest.mockFn(N.B.p);
ConfigCalls ==
    {JestCall("mockObj", <<Id("A")>>),
     JestCall("mockFn", <<Id("A")>>),
     JestCall("mockObj", <<Id("A"), Str("v")>>),
     JestCall("mockObj", <<Id("A"), ObjectReplacement>>),
     JestCall("mockObj", <<Member(Id("A"), Id("p"))>>),
     JestCall("mockFn", <<Member(Id("A"), Id("p"))>>),
     JestCall("mockObj", <<Member(Id("A"), Id("p")), Str("v")>>),
     JestCall("mockFn", <<Member(Id("N"), Id("B"))>>),
     JestCall("mockObj", <<Member(Member(Id("N"), Id("B")), Id("p"))>>),
     JestCall("mockFn", <<Member(Member(Id("N"), Id("B")), Id("p"))>>)}

InitConfigs == InitWith(Configs, {<<>>})

NextConfigs ==
    \/ Program
    \/ VisitImportDeclaration(ShapeImports)
    \/ VisitCallExpression(ConfigCalls)
    \/ Post

SpecConfigs == InitConfigs /\ [][NextConfigs]_vars

\* the configuration with every request identifier removed from the output
AllRemoved(cfg) ==
    [cfg EXCEPT !.identifiers =
        [k \in 1..Len(cfg.identifiers) |-> [cfg.identifiers[k] EXCEPT !.remove = TRUE]]]

\* the call matches a request identifier configured with remove = false
IsKeptCall(cfg, stmt) == IsRequestCall(cfg, stmt) /\ ~RequestEntry(cfg, stmt).remove

FactoryOf(stmt) == stmt.kids[3]
MappingOf(stmt) == stmt.kids[3].kids[1]

\* ...a
SpreadOfModule == Node("SpreadElement", "", <<Id("a")>>)

\* C18. Real-export preservation per configuration: with requireActual every emitted
\* factory loads the real module of its own path and its export mapping starts with
\* the spread of it, the mocked entries after; without requireActual no factory loads
\* the real module and no mapping, top-level or nested, holds a spread.
C18_RequireActual ==
    pc = "done" =>
        \A k \in RegistrationsIn(body) :
            LET entries == MappingOf(body[k]).kids IN
            IF config.requireActual
            THEN /\ FactoryOf(body[k]).name = RegisteredModule(body[k])
                 /\ entries # <<>>
                 /\ entries[1] = SpreadOfModule
                 /\ \A j \in 2..Len(entries) : entries[j].type = "ObjectProperty"
            ELSE /\ FactoryOf(body[k]).name = ""
                 /\ \A j \in 1..Len(entries) :
                        /\ entries[j].type = "ObjectProperty"
                        /\ \A i \in 1..Len(entries[j].kids[1].kids) :
                               entries[j].kids[1].kids[i].type # "SpreadElement"

\* C18's case: requireActual is set and "./b" is registered with a mocked export.
C18_Witness ==
    /\ pc = "done"
    /\ config.requireActual
    /\ \E k \in RegistrationsOf(body, "./b") :
           /\ FactoryOf(body[k]).name = "./b"
           /\ Len(MappingOf(body[k]).kids) = 2

\* the requests the calls of the file record that yield an export entry, each with
\* the module path, the export key and the sub-key it is mocked under, in file order
KeptIn(cfg, stmts) ==
    LET bs == Bindings(stmts)
        rs == FileRecords(cfg, stmts, LAMBDA a : a.type # "SpreadElement")
        F[k \in 0..Len(rs)] ==
            IF k = 0 THEN <<>>
            ELSE IF /\ IsBound(bs, rs[k].root)
                    /\ ~Dropped(BindingOf(bs, rs[k].root), rs[k].def.subProperties)
                 THEN Append(F[k - 1],
                             [root |-> rs[k].root,
                              path |-> BindingOf(bs, rs[k].root).path,
                              key |-> ExportKey(BindingOf(bs, rs[k].root),
                                                rs[k].def.subProperties),
                              sub |-> SubKey(BindingOf(bs, rs[k].root),
                                             rs[k].def.subProperties),
                              value |-> rs[k].def.expression,
                              type |-> rs[k].def.type])
                 ELSE F[k - 1]
    IN  F[Len(rs)]

\* ...a.<key>
SpreadOfExport(key) ==
    Node("SpreadElement", "", <<Node("MemberExpression", "", <<Id("a"), Id(key)>>)>>)

\* the sub-keys requested on the key after its last flat request
RECURSIVE SubKeysSinceFlat(_)
SubKeysSinceFlat(rs) ==
    IF rs = <<>> \/ rs[Len(rs)].sub = "" THEN {}
    ELSE {rs[Len(rs)].sub} \cup SubKeysSinceFlat(SubSeq(rs, 1, Len(rs) - 1))

\* C19. Nested spread under requireActual: when the last request on export key K has a
\* sub-key, the value of K is an object that starts with exactly one spread of the
\* real export K, followed by the sub-keys mocked since the last flat request; when
\* the last request is flat, the value is its replacement, with no spread of K.
C19_NestedSpread ==
    (pc = "done" /\ config.requireActual) =>
        LET ks == KeptIn(config, file) IN
        \A pk \in Reached(ks) :
            LET rs == Reaching(ks, pk[1], pk[2]) IN
            \E k \in RegistrationsOf(body, pk[1]) :
                /\ HasEntry(body[k], pk[2])
                /\ LET v == EntryValue(body[k], pk[2]) IN
                   IF rs[Len(rs)].sub = "" THEN v = rs[Len(rs)].value
                   ELSE /\ v.type = "ObjectExpression"
                        /\ v.kids # <<>>
                        /\ v.kids[1] = SpreadOfExport(pk[2])
                        /\ \A j \in 2..Len(v.kids) :
                               /\ v.kids[j].type = "ObjectProperty"
                               /\ v.kids[j].name \in SubKeysSinceFlat(rs)
                        /\ \A sub \in SubKeysSinceFlat(rs) :
                               \E j \in 2..Len(v.kids) : v.kids[j].name = sub

\* the mock function the FunctionMock default path generates: jest.fn().mockName(<tag>)
IsGeneratedMockFn(v) ==
    /\ v.type = "CallExpression"
    /\ Len(v.kids) = 2
    /\ v.kids[1] = Node("MemberExpression", "",
                        <<Node("CallExpression", "",
                               <<Node("MemberExpression", "", <<Id("jest"), Id("fn")>>)>>),
                          Id("mockName")>>)
    /\ v.kids[2].type = "StringLiteral"

\* the naming statements of a registration's factory
NamingStatements(stmt) == Tail(FactoryOf(stmt).kids)

\* the value a literal holds under a key once evaluated: that of the key's last entry
FinalValue(props, key) ==
    props[CHOOSE j \in 1..Len(props) :
              /\ props[j].type = "ObjectProperty" /\ props[j].name = key
              /\ \A i \in (j + 1)..Len(props) :
                     ~(props[i].type = "ObjectProperty" /\ props[i].name = key)].kids[1]

HasKey(props, key) ==
    \E j \in 1..Len(props) : props[j].type = "ObjectProperty" /\ props[j].name = key

\* the location o.<at> of the mapping holds a generated mock function
GeneratedAt(mapping, at) ==
    \/ /\ HasKey(mapping.kids, at)
       /\ IsGeneratedMockFn(FinalValue(mapping.kids, at))
    \/ \E j \in 1..Len(mapping.kids) :
           /\ mapping.kids[j].type = "ObjectProperty"
           /\ mapping.kids[j].kids[1].type = "ObjectExpression"
           /\ LET inner == mapping.kids[j].kids[1].kids IN
              \E i \in 1..Len(inner) :
                  /\ inner[i].type = "ObjectProperty"
                  /\ at = mapping.kids[j].name \o "." \o inner[i].name
                  /\ IsGeneratedMockFn(FinalValue(inner, inner[i].name))

\* C20. No orphaned naming statement: every naming statement of an emitted factory
\* names a location of the factory's literal (K or K.sub) whose final value is a mock
\* function generated by the FunctionMock default path.
C20_NoOrphanNaming ==
    pc = "done" =>
        \A k \in RegistrationsIn(body) :
            \A j \in 1..Len(NamingStatements(body[k])) :
                GeneratedAt(MappingOf(body[k]), NamingStatements(body[k])[j].name)

\* C16. One registration per module: no module path has two registration statements
\* in the output, and every request that yields an export entry of a module that is
\* not suppressed has its export key in the one factory of that module.
C16_OneRegistration ==
    pc = "done" =>
        /\ \A i, j \in RegistrationsIn(body) :
               RegisteredModule(body[i]) = RegisteredModule(body[j]) => i = j
        /\ \A pk \in Reached(KeptOf(file)) :
               ~Suppressed(file, pk[1]) =>
                   /\ Cardinality(RegistrationsOf(body, pk[1])) = 1
                   /\ \A k \in RegistrationsOf(body, pk[1]) : HasEntry(body[k], pk[2])

\* C16's case: two import declarations name "./a", each binding has a request, and
\* the output holds one registration of "./a".
C16_Witness ==
    /\ pc = "done"
    /\ file = <<ImportDecl("./a", <<ImportDefaultSpecifier("A")>>),
                ImportDecl("./a", <<ImportSpecifier("default", "C")>>),
                RequestCall(Request("mockObj", <<<<"A", "p">>>>, FALSE, Str(""))),
                RequestCall(Request("mockObj", <<<<"C">>>>, TRUE, Str("v")))>>
    /\ Cardinality(RegistrationsOf(body, "./a")) = 1

(* ------------- files with names that every object inherits ------------- *)

\* import * as N from "./b"; import { toString } from "./a";
NameImports ==
    {ImportDecl("./b", <<ImportNamespaceSpecifier("N")>>),
     ImportDecl("./a", <<ImportSpecifier("toString", "toString")>>)}

\* jest.mockObj(N.B); jest.mockObj(N.toString); jest.mockObj(N.constructor.p);
\* jest.mockObj(toString); jest.mockObj(toString.p.q);
NameCalls ==
    {JestCall("mockObj", <<Member(Id("N"), Id("B"))>>),
     JestCall("mockObj", <<Member(Id("N"), Id("toString"))>>),
     JestCall("mockObj", <<Member(Member(Id("N"), Id("constructor")), Id("p"))>>),
     JestCall("mockObj", <<Id("toString")>>),
     JestCall("mockObj", <<Member(Member(Id("toString"), Id("p")), Id("q"))>>)}

NextNames ==
    \/ Program
    \/ VisitImportDeclaration(NameImports)
    \/ VisitCallExpression(NameCalls)
    \/ Post

SpecNames == Init /\ [][NextNames]_vars

\* C17. No exceptions: the pass never ends by raising an exception, whatever names
\* the file uses for its bindings, export keys and sub-keys.
C17_NoException == pc # "threw"

(* ------------------ files under a configured jest global --------------- *)

\* { jestIdentifier: "G", identifiers: G.mockObj, G.mockFn, ignoreIdentifiers: G.mock }
globalConfig ==
    [jestIdentifier |-> "G",
     ignoreIdentifiers |-> <<"G.mock">>,
     identifiers |-> <<IdentifierConfiguration("G.mockObj", TRUE, "name"),
                       IdentifierConfiguration("G.mockFn", TRUE, "mock")>>,
     requireActual |-> FALSE]

GlobalConfigs == {globalConfig, [globalConfig EXCEPT !.requireActual = TRUE]}

GlobalCall(method, args) == Call(Member(Id("G"), Id(method)), args)

\* G.mockObj(A); G.mockFn(A); G.mockFn(A.p); G.mockObj(N.B); G.mock("./b");
GlobalCalls ==
    {GlobalCall("mockObj", <<Id("A")>>),
     GlobalCall("mockFn", <<Id("A")>>),
     GlobalCall("mockFn", <<Member(Id("A"), Id("p"))>>),
     GlobalCall("mockObj", <<Member(Id("N"), Id("B"))>>),
     GlobalCall("mock", <<Str("./b")>>)}

InitGlobal == InitWith(GlobalConfigs, {<<>>})

NextGlobal ==
    \/ Program
    \/ VisitImportDeclaration(ShapeImports)
    \/ VisitCallExpression(GlobalCalls)
    \/ Post

SpecGlobal == InitGlobal /\ [][NextGlobal]_vars

\* the mock functions generated in a value: the value itself or the entries of a
\* nested object, read as <something>.fn().mockName(<tag>)
IsMockFnOf(v, global) ==
    /\ v.type = "CallExpression"
    /\ Len(v.kids) = 2
    /\ v.kids[1].type = "MemberExpression"
    /\ v.kids[1].kids[2] = Id("mockName")
    /\ v.kids[1].kids[1].type = "CallExpression"
    /\ v.kids[1].kids[1].kids = <<Node("MemberExpression", "", <<Id(global), Id("fn")>>)>>

IsMockFn(v) ==
    /\ v.type = "CallExpression"
    /\ Len(v.kids) = 2
    /\ v.kids[1].type = "MemberExpression"
    /\ v.kids[1].kids[2] = Id("mockName")

\* the values of a mapping: those of its entries and of the entries' nested objects
ValuesOf(mapping) ==
    LET top == {mapping.kids[j].kids[1] :
                   j \in {x \in 1..Len(mapping.kids) : mapping.kids[x].type = "ObjectProperty"}}
    IN  top \cup UNION {{v.kids[i].kids[1] :
                            i \in {x \in 1..Len(v.kids) : v.kids[x].type = "ObjectProperty"}} :
                        v \in {w \in top : w.type = "ObjectExpression"}}

\* C21. Configured mocking identifier: with jestIdentifier G the registration call, the
\* generated mock functions and the load of the real module all refer to G.
C21_ConfiguredGlobal ==
    pc = "done" =>
        \A k \in RegistrationsIn(body) :
            /\ body[k].kids[1] = Node("MemberExpression", "",
                                      <<Id(config.jestIdentifier), Id("mock")>>)
            /\ \A v \in ValuesOf(MappingOf(body[k])) :
                   IsMockFn(v) => IsMockFnOf(v, config.jestIdentifier)
            /\ FactoryOf(body[k]).name # "" =>
                   RequireActualCallee = Node("MemberExpression", "",
                                              <<Id(config.jestIdentifier), Id("requireActual")>>)

\* the locations of a mapping whose final value is a generated mock function: K, or
\* K.sub under a key whose final value is a nested object
GeneratedLocations(mapping) ==
    LET props == mapping.kids
        keys == {props[j].name : j \in {x \in 1..Len(props) : props[x].type = "ObjectProperty"}}
    IN  {key \in keys : IsGeneratedMockFn(FinalValue(props, key))}
        \cup UNION {LET inner == FinalValue(props, key).kids IN
                    {key \o "." \o inner[i].name :
                        i \in {x \in 1..Len(inner) :
                                  /\ inner[x].type = "ObjectProperty"
                                  /\ IsGeneratedMockFn(FinalValue(inner, inner[x].name))}} :
                    key \in {x \in keys : FinalValue(props, x).type = "ObjectExpression"}}

\* C22. Naming statement completeness: every location K or K.sub of an emitted literal
\* whose final value is a generated mock function has a naming statement in the same
\* factory, whatever the order of the flat and sub-key requests on K.
C22_NamingComplete ==
    pc = "done" =>
        \A k \in RegistrationsIn(body) :
            \A at \in GeneratedLocations(MappingOf(body[k])) :
                \E j \in 1..Len(NamingStatements(body[k])) :
                    NamingStatements(body[k])[j].name = at

(* ------------- mock functions on every kind of binding ----------------- *)

\* import A from "./a"; import { B } from "./b"; import * as N from "./c";
NamingImports ==
    {ImportDecl("./a", <<ImportDefaultSpecifier("A")>>),
     ImportDecl("./b", <<ImportSpecifier("B", "B")>>),
     ImportDecl("./c", <<ImportNamespaceSpecifier("N")>>)}

\* jest.mockFn(A); jest.mockFn(A.p); jest.mockFn(B); jest.mockFn(B.p);
\* jest.mockFn(N.X); jest.mockFn(N.X.p);
NamingCalls ==
    {JestCall("mockFn", <<e>>) :
        e \in {Id("A"), Member(Id("A"), Id("p")),
               Id("B"), Member(Id("B"), Id("p")),
               Member(Id("N"), Id("X")), Member(Member(Id("N"), Id("X")), Id("p"))}}

NextNaming ==
    \/ Program
    \/ VisitImportDeclaration(NamingImports)
    \/ VisitCallExpression(NamingCalls)
    \/ Post

SpecNaming == Init /\ [][NextNaming]_vars

\* the mockName tags of the generated mock functions that are the final value at the
\* location o.<at> of a mapping
TagsAt(mapping, at) ==
    LET props == mapping.kids
        keys == {props[j].name : j \in {x \in 1..Len(props) : props[x].type = "ObjectProperty"}}
    IN  {FinalValue(props, key).kids[2].name :
            key \in {x \in keys : x = at /\ IsGeneratedMockFn(FinalValue(props, x))}}
        \cup UNION {LET inner == FinalValue(props, key).kids IN
                    {FinalValue(inner, inner[i].name).kids[2].name :
                        i \in {x \in 1..Len(inner) :
                                  /\ inner[x].type = "ObjectProperty"
                                  /\ at = key \o "." \o inner[x].name
                                  /\ IsGeneratedMockFn(FinalValue(inner, inner[x].name))}} :
                    key \in {x \in keys : FinalValue(props, x).type = "ObjectExpression"}}

\* C23. Naming statement agrees with the tag: the display name a naming statement binds
\* is the mockName tag of the generated mock function at its location, that is the
\* dotted path of the request that produced it, for every kind of binding, flat and
\* nested.
C23_NamingAgrees ==
    pc = "done" =>
        \A k \in RegistrationsIn(body) :
            \A j \in 1..Len(NamingStatements(body[k])) :
                LET st == NamingStatements(body[k])[j] IN
                \A tag \in TagsAt(MappingOf(body[k]), st.name) : st.kids[1].name = tag

\* the replacement of the last request of rs on the sub-key
RECURSIVE LastOnSub(_, _)
LastOnSub(rs, sub) ==
    IF rs[Len(rs)].sub = sub THEN rs[Len(rs)].value
    ELSE LastOnSub(SubSeq(rs, 1, Len(rs) - 1), sub)

\* C24. Last write wins per sub-key: when the final value of export key K is nested,
\* each sub-key requested since the last flat request on K occurs exactly once in the
\* nested object, with the replacement of the last request on that sub-key.
C24_SubKeyOnce ==
    pc = "done" =>
        LET ks == KeptIn(config, file) IN
        \A pk \in Reached(ks) :
            LET rs == Reaching(ks, pk[1], pk[2]) IN
            rs[Len(rs)].sub # "" =>
                \A k \in RegistrationsOf(body, pk[1]) :
                    /\ HasEntry(body[k], pk[2])
                    /\ EntryValue(body[k], pk[2]).type = "ObjectExpression"
                    /\ LET inner == EntryValue(body[k], pk[2]).kids IN
                       \A sub \in SubKeysSinceFlat(rs) :
                           /\ Cardinality({i \in 1..Len(inner) :
                                              /\ inner[i].type = "ObjectProperty"
                                              /\ inner[i].name = sub}) = 1
                           /\ FinalValue(inner, sub) = LastOnSub(rs, sub)

\* the value the in-order replay of the entries of a key yields: a flat entry sets the
\* value and discards the sub-keys, an entry with a sub-key sets that sub-key of a
\* nested mapping that starts empty after a flat entry
ReplayedSubs(rs) ==
    [sub \in SubKeysSinceFlat(rs) |-> LastOnSub(rs, sub)]

\* the nested mapping an object literal denotes: its keys with their final values
Denotes(v) ==
    [sub \in {v.kids[i].name : i \in {x \in 1..Len(v.kids) : v.kids[x].type = "ObjectProperty"}}
        |-> FinalValue(v.kids, sub)]

\* C25. In-order replay of flat and nested entries: the emitted value of an export key
\* is its last flat replacement when no sub-key request follows it, and otherwise a
\* nested mapping of exactly the sub-keys requested after the last flat request,
\* whatever that flat replacement was.
C25_Replay ==
    pc = "done" =>
        LET ks == KeptIn(config, file) IN
        \A pk \in Reached(ks) :
            LET rs == Reaching(ks, pk[1], pk[2]) IN
            \A k \in RegistrationsOf(body, pk[1]) :
                /\ HasEntry(body[k], pk[2])
                /\ LET v == EntryValue(body[k], pk[2]) IN
                   IF rs[Len(rs)].sub = "" THEN v = rs[Len(rs)].value
                   ELSE /\ v.type = "ObjectExpression"
                        /\ Denotes(v) = ReplayedSubs(rs)

(* ----------------- arguments of every shape of access ------------------- *)

\* A.p, N.B.p, A[p], A["p"], A["x"].p, A[p].q, setup().p, this.p
PathArguments ==
    {Member(Id("A"), Id("p")),
     Member(Member(Id("N"), Id("B")), Id("p")),
     ComputedMember(Id("A"), Id("p")),
     ComputedMember(Id("A"), Str("p")),
     Member(ComputedMember(Id("A"), Str("x")), Id("p")),
     Member(ComputedMember(Id("A"), Id("p")), Id("q")),
     Member(CallResult, Id("p")),
     Member(ThisExpression, Id("p"))}

\* jest.mockObj(<argument>); jest.mockFn(A[p]); jest.mockObj(setup(), A);
\* jest.mockFn(setup().p, A, N.B); jest.mockObj(A["p"], N.B); jest.mockFn(A[p], N.B);
PathCalls ==
    {JestCall("mockObj", <<a>>) : a \in PathArguments}
    \cup {JestCall("mockFn", <<ComputedMember(Id("A"), Id("p"))>>),
          JestCall("mockObj", <<CallResult, Id("A")>>),
          JestCall("mockFn", <<Member(CallResult, Id("p")), Id("A"), Member(Id("N"), Id("B"))>>),
          JestCall("mockObj", <<ComputedMember(Id("A"), Str("p")), Member(Id("N"), Id("B"))>>),
          JestCall("mockFn", <<ComputedMember(Id("A"), Id("p")), Member(Id("N"), Id("B"))>>)}

NextPaths ==
    \/ Program
    \/ VisitImportDeclaration(ShapeImports)
    \/ VisitCallExpression(PathCalls)
    \/ Post

SpecPaths == Init /\ [][NextPaths]_vars

\* the path an argument resolves to: an identifier, or a chain of non-computed member
\* accesses on one, with all its segments in source order
RECURSIVE ResolvedPath(_)
ResolvedPath(e) ==
    IF e.type = "Identifier" THEN [ok |-> TRUE, root |-> e.name, segs |-> <<>>]
    ELSE IF /\ e.type = "MemberExpression"
            /\ e.name # "computed"
            /\ e.kids[2].type = "Identifier"
    THEN LET o == ResolvedPath(e.kids[1]) IN
         IF o.ok THEN [o EXCEPT !.segs = Append(@, e.kids[2].name)]
         ELSE [ok |-> FALSE, root |-> "", segs |-> <<>>]
    ELSE [ok |-> FALSE, root |-> "", segs |-> <<>>]

\* what the request calls of the statements record when each argument that resolves
\* to a path is its own request, in file order
ResolvedRecords(cfg, stmts) ==
    LET of(args, type) ==
            LET G[k \in 0..Len(args)] ==
                    IF k = 0 THEN <<>>
                    ELSE IF ResolvedPath(args[k]).ok
                         THEN Append(G[k - 1],
                                     Recorded(ResolvedPath(args[k]), type,
                                              DefaultValue(ResolvedPath(args[k]), type)))
                         ELSE G[k - 1]
            IN  G[Len(args)]
        F[k \in 0..Len(stmts)] ==
            IF k = 0 THEN <<>>
            ELSE F[k - 1] \o (IF IsRequestCall(cfg, stmts[k]) /\ ~ExplicitForm(stmts[k])
                              THEN of(Arguments(stmts[k]), RequestEntry(cfg, stmts[k]).type)
                              ELSE <<>>)
    IN  F[Len(stmts)]

\* C26. Property-path resolution: an argument records a request only if it is an
\* identifier or a chain of non-computed member accesses on an identifier, with that
\* identifier as root and all the accessed names as segments in source order; an
\* argument with a bracket access at any level, a call result or another base records
\* nothing.
C26_PathResolution == RegistryHolds(mocks, ResolvedRecords(config, file))

\* the registry the traversal of the statements builds
RegistryOf(cfg, stmts) ==
    Traverse(cfg,
             [body |-> <<>>, importIdentifiers |-> <<>>,
              mocks |-> [x \in {} |-> <<>>], existingJestMocks |-> <<>>],
             stmts).mocks

\* C27. Independent arguments: in a call where each argument is its own request, an
\* argument that does not resolve to a path is skipped, and the other arguments are
\* recorded as they are when the call is written without it, for both kinds of request.
C27_IndependentArguments ==
    mocks = RegistryOf(config,
                       RewriteRequests(config, file,
                           LAMBDA c : IF ExplicitForm(c) THEN <<c>>
                                      ELSE WithoutArguments(c, LAMBDA a : ~ResolvedPath(a).ok)))

\* the argument records nothing when it is the call's only argument
RecordsNothing(cfg, c, a) ==
    RegistryOf(cfg, <<Call(c.kids[1], <<a>>)>>) = [x \in {} |-> <<>>]

\* C27, for the arguments that are skipped. In a call where each argument is its own
\* request, the arguments that record nothing leave the records of the other
\* arguments as they are when the call is written without them.
C27_IndependentOfSkipped ==
    mocks = RegistryOf(config,
                       RewriteRequests(config, file,
                           LAMBDA c : IF ExplicitForm(c) THEN <<c>>
                                      ELSE WithoutArguments(c,
                                               LAMBDA a : RecordsNothing(config, c, a))))

\* a call with three arguments, the first of them skipped, has recorded the other two
C27_WitnessOfSkipped ==
    /\ pc = "done"
    /\ \E k \in 1..Len(file) :
           /\ IsRequestCall(config, file[k])
           /\ Len(Arguments(file[k])) = 3
           /\ RecordsNothing(config, file[k], Arguments(file[k])[1])
    /\ "A" \in DOMAIN mocks
    /\ "N" \in DOMAIN mocks

(* ---------------------- callees of every shape -------------------------- *)

\* jest.mockObj, this.jest.mockObj, setup().jest.mockObj, other.jest.mockObj, mockObj,
\* jest.mockObj.call, this.jest.mock, jest.mock
Callees ==
    {Member(Id("jest"), Id("mockObj")),
     Member(Member(ThisExpression, Id("jest")), Id("mockObj")),
     Member(Member(CallResult, Id("jest")), Id("mockObj")),
     Member(Member(Id("other"), Id("jest")), Id("mockObj")),
     Id("mockObj"),
     Member(Member(Id("jest"), Id("mockObj")), Id("call"))}

\* <callee>(A); jest.mockFn(N.B); jest.mock("./a"); this.jest.mock("./a");
CalleeCalls ==
    {Call(c, <<Id("A")>>) : c \in Callees}
    \cup {JestCall("mockFn", <<Member(Id("N"), Id("B"))>>),
          JestCall("mock", <<Str("./a")>>),
          Call(Member(Member(ThisExpression, Id("jest")), Id("mock")), <<Str("./a")>>)}

NextCallees ==
    \/ Program
    \/ VisitImportDeclaration(ShapeImports)
    \/ VisitCallExpression(CalleeCalls)
    \/ Post

SpecCallees == Init /\ [][NextCallees]_vars

\* the call is neither a mock request nor an ignore call: its callee is not a chain of
\* member accesses on an identifier with a configured dotted name
IsOtherCall(cfg, stmt) ==
    /\ stmt.type = "CallExpression"
    /\ \A k \in 1..Len(cfg.identifiers) : cfg.identifiers[k].name # CalleeName(stmt)
    /\ \A k \in 1..Len(cfg.ignoreIdentifiers) : cfg.ignoreIdentifiers[k] # CalleeName(stmt)

\* C28. Classification by full dotted callee name: a call whose callee is not an
\* identifier or a chain of member accesses on an identifier whose dotted name is a
\* configured request or ignore name (one rooted at a call result or at `this` among
\* them) stays in the output and records nothing: the output is that of the file
\* without these calls, with the calls left where they are.
C28_Classification ==
    pc = "done" =>
        /\ SelectSeq(body, LAMBDA x : IsOtherCall(config, x))
               = SelectSeq(file, LAMBDA x : IsOtherCall(config, x))
        /\ SelectSeq(body, LAMBDA x : ~IsOtherCall(config, x))
               = Transform(config, SelectSeq(file, LAMBDA x : ~IsOtherCall(config, x))).body

(* ------------------- ignore calls of every shape ------------------------ *)

\* `<path>`
TemplateLiteral(raw) == Node("TemplateLiteral", raw, <<>>)

\* jest.mockObj(A); jest.mockObj(N.B); jest.mock("./a"); jest.unmock("./b"); jest.mock();
\* jest.mock(path); jest.mock(`./a`); jest.dontMock(`./b`);
ArgumentCalls ==
    {JestCall("mockObj", <<Id("A")>>),
     JestCall("mockObj", <<Member(Id("N"), Id("B"))>>),
     JestCall("mock", <<Str("./a")>>),
     JestCall("unmock", <<Str("./b")>>),
     JestCall("mock", <<>>),
     JestCall("mock", <<Id("path")>>),
     JestCall("mock", <<TemplateLiteral("./a")>>),
     JestCall("dontMock", <<TemplateLiteral("./b")>>)}

NextArguments ==
    \/ Program
    \/ VisitImportDeclaration(ShapeImports)
    \/ VisitCallExpression(ArgumentCalls)
    \/ Post

SpecArguments == Init /\ [][NextArguments]_vars

\* the call's callee has a configured ignore name
IsIgnoreCall(cfg, stmt) ==
    /\ stmt.type = "CallExpression"
    /\ \E k \in 1..Len(cfg.ignoreIdentifiers) : cfg.ignoreIdentifiers[k] = CalleeName(stmt)

\* the module paths the ignore calls of the statements name by a string literal
NamedByIgnoreCalls(cfg, stmts) ==
    {stmts[k].kids[2].name :
        k \in {x \in 1..Len(stmts) : /\ IsIgnoreCall(cfg, stmts[x])
                                     /\ Len(stmts[x].kids) >= 2
                                     /\ stmts[x].kids[2].type = "StringLiteral"}}

\* C29. Ignore calls need a literal path: a module is suppressed exactly when an ignore
\* call has its path as string-literal first argument; an ignore call with no argument
\* or another first argument suppresses nothing, and every ignore call stays in the
\* output as written.
C29_LiteralPath ==
    pc = "done" =>
        LET named == NamedByIgnoreCalls(config, file) IN
        /\ \A path \in named : RegistrationsOf(body, path) = {}
        /\ \A pk \in Reached(KeptIn(config, file)) :
               pk[1] \notin named => RegistrationsOf(body, pk[1]) # {}
        /\ SelectSeq(body, LAMBDA x : IsIgnoreCall(config, x) /\ ~IsRegistration(x))
               = SelectSeq(file, LAMBDA x : IsIgnoreCall(config, x))

\* C29's case: the file mocks an export of "./a" and holds an ignore call whose first
\* argument is not a string literal, one with no argument, and "./a" is registered.
C29_Witness ==
    /\ pc = "done"
    /\ \E k \in 1..Len(file) : IsIgnoreCall(config, file[k]) /\ Len(file[k].kids) = 1
    /\ \E k \in 1..Len(file) :
           /\ IsIgnoreCall(config, file[k])
           /\ Len(file[k].kids) = 2
           /\ file[k].kids[2].type # "StringLiteral"
    /\ RegistrationsOf(body, "./a") # {}

\* the call expressions inside a node
RECURSIVE CallsWithin(_)
CallsWithin(n) ==
    (IF n.type = "CallExpression" THEN {n} ELSE {})
        \cup UNION {CallsWithin(n.kids[i]) : i \in 1..Len(n.kids)}

\* the calls the emitted registration holds inside its factory: those of the mapping
\* and the load of the real module
EmittedCalls(stmt) ==
    CallsWithin(FactoryOf(stmt))
        \cup (IF FactoryOf(stmt).name = "" THEN {}
              ELSE {Call(RequireActualCallee, <<Str(FactoryOf(stmt).name)>>)})

\* C30. Idempotence of the transform: with the default jest identifier and ignore
\* names, the transform of the output is the output: no registration is inserted, no
\* statement is deleted (the request calls kept by remove = false and the inserted
\* registrations included), and no call inside an emitted factory is a request or an
\* ignore call.
C30_Idempotent ==
    pc = "done" =>
        /\ Transform(config, body) = [body |-> body, threw |-> FALSE]
        /\ \A k \in RegistrationsIn(body) :
               \A c \in EmittedCalls(body[k]) :
                   /\ isMockObjCallExpession(config, c) = NoIdentifier
                   /\ ~isJestMockCallExpression(config, c)

\* C30's case: a request call is kept by remove = false next to the registration
\* inserted for its module.
C30_Witness ==
    /\ pc = "done"
    /\ RegistrationsOf(body, "./a") # {}
    /\ RegistrationsOf(body, "./b") # {}
    /\ \E k \in 1..Len(body) : IsRequestCall(config, body[k])

====
